---- MODULE Spec2Model ----
(***************************************************************************)
(* Listing reconciliation and geo resolution of the plots scrapers.        *)
(*                                                                         *)
(* Text is modelled as a sequence of tokens (a word, a blank " ", "(" or   *)
(* ")"); names are written in ASCII.  A coordinate is <<lat, lon>> in      *)
(* units of 1e-4 degree, a distance is in units of 0.01 km (the code       *)
(* rounds every distance to two decimals).  A date is a day number.        *)
(***************************************************************************)
EXTENDS Integers, Sequences, FiniteSets, TLC

VARIABLES
    file,           \* rows of dzialki/nieruchomosci_online_dzialki.xlsx
    pc,             \* position of main(): "idle", "scrape", "done"; with OneDrive
                    \* credentials also "download", "load", "upload", "end", "aborted"
    today,          \* date.today() of the current run
    df_existing,    \* main(): the rows loaded at start, Active updated at the end
    results,        \* module-level list of the rows built in this run
    current_links,  \* main(): links seen in this run
    batch,          \* the listings handled so far in this run, with their coords_list
    created,        \* history: per link, the first-find values of the rows of its first recording
    runs,           \* how many runs have started
    handled,        \* how many listings all the runs so far have handled
    geo,            \* the last call of a resolver: its input, its output, what it touched
    cloud,          \* rows of the copy of the spreadsheet kept on OneDrive
    saved,          \* whether this run has executed df_combined.to_excel(EXCEL_FILE)
    onedrive,       \* how the OneDrive requests of this run were answered
    olx,            \* olx.py: its spreadsheet and the locals of main()
    otodom,         \* otodom.py: its spreadsheet and the locals of main() and update_sheet
    crawl           \* nieruchomosci_online.py: the page loop of main()

vars == <<file, pc, today, df_existing, results, current_links, batch, created, runs, handled,
          geo, cloud, saved, onedrive, olx, otodom, crawl>>

mainVars == <<file, pc, today, df_existing, results, current_links, batch, created, runs, handled,
              cloud, saved, onedrive, olx, otodom, crawl>>

\* the variables of nieruchomosci_online.py
nierVars == <<file, pc, today, df_existing, results, current_links, batch, created, runs, handled,
              cloud, saved, onedrive, crawl>>

(***************************************************************************)
(* Bounds of the model.                                                    *)
(***************************************************************************)
\* runs of main()
MaxRuns == 3

\* listings handled by all the runs together
MaxListings == 3

Links == {"L1", "L2"}

Prices == {100, 120}

Titles == {"Dzialka"}

(***************************************************************************)
(* Constants of the program.                                               *)
(***************************************************************************)
KRAKOW_COORDS == <<500647, 199450>>

MAX_DISTANCE_KM == 50

max_retries == 3

ALLOWED_COUNTIES ==
    << <<"krakowski">>, <<"wielicki">>, <<"wadowicki">>,
       <<"chrzanowski">>, <<"olkuski">>, <<"myslenicki">> >>

COUNTY_COORDS ==
    ( <<"krakowski">>   :> <<500647, 199450>> ) @@
    ( <<"wielicki">>    :> <<499871, 200644>> ) @@
    ( <<"wadowicki">>   :> <<498833, 194881>> ) @@
    ( <<"chrzanowski">> :> <<501376, 193988>> ) @@
    ( <<"olkuski">>     :> <<502810, 195653>> ) @@
    ( <<"myslenicki">>  :> <<498333, 199333>> )

(***************************************************************************)
(* Sample places.  Skawina and Wola lie within 50 km of Krakow, Tarnow and *)
(* Katowice beyond it.                                                     *)
(***************************************************************************)
Skawina == <<499753, 198283>>

WolaA == <<499871, 200644>>

WolaB == <<498333, 199333>>

Tarnow == <<500121, 209858>>

Katowice == <<502649, 190238>>

\* geopy's geodesic(KRAKOW_COORDS, c).km on the WGS-84 ellipsoid, rounded to
\* two decimals, for the places of this model.
geodesic(c) ==
    CASE c = <<500647, 199450>> -> 0
      [] c = <<499871, 200644>> -> 1215
      [] c = <<498833, 194881>> -> 3849
      [] c = <<501376, 193988>> -> 3991
      [] c = <<502810, 195653>> -> 3626
      [] c = <<498333, 199333>> -> 2575
      [] c = <<499753, 198283>> -> 1299
      [] c = <<500121, 209858>> -> 7479
      [] c = <<502649, 190238>> -> 6948

\* town_list.txt as load_towns leaves it: lower-cased town -> its coordinates
\* in file order.  "wola" is ambiguous, "tarnow" is only stored too far
\* away, as is "osiek olkuski", whose name holds a county's; "dabrowa" has
\* one coordinate in range and one beyond it.
TOWN_COORDS ==
    ( <<"krakow">>  :> << KRAKOW_COORDS >> ) @@
    ( <<"wola">>    :> << WolaA, WolaB >> ) @@
    ( <<"tarnow">>  :> << Tarnow >> ) @@
    ( <<"dabrowa">> :> << Katowice, Skawina >> ) @@
    ( <<"osiek", " ", "olkuski">> :> << Katowice >> )

\* Location texts as joined from the page (" ".join of the a/span texts).
Locations ==
    { <<"Krakow", " ", "(", "dzielnica", ")">>,
      <<"Wola", " ", "(", "gmina", ")">>,
      <<"Zator", " ">>,
      <<"Tarnow">>,
      <<"Dabrowa", " ", "(", "gmina", ")">>,
      <<"powiat", " ", "Wielicki">>,
      <<"Osiek", " ", "olkuski", " ", "(", "gmina", ")">>,
      <<"No location">> }

\* The locations the run model draws from.
RunLocations ==
    { <<"Wola", " ", "(", "gmina", ")">>,
      <<"Zator", " ">> }

\* What one geolocator.geocode call can do: raise, return None, or return a place.
\* ("at" is read only for a place).
GeoAnswers ==
    { [kind |-> "raise", at |-> <<0, 0>>],
      [kind |-> "none",  at |-> <<0, 0>>],
      [kind |-> "place", at |-> Skawina],
      [kind |-> "place", at |-> Katowice] }

\* The answers of the successive geocode calls of one resolution.
AnswerSeqs == [1..max_retries -> GeoAnswers]

(***************************************************************************)
(* str helpers.                                                            *)
(***************************************************************************)
MinOf(S) == CHOOSE x \in S : \A y \in S : x <= y

\* location.split("(")[0]
SplitParen(s) ==
    LET idx == {i \in 1..Len(s) : s[i] = "("}
    IN  IF idx = {} THEN s ELSE SubSeq(s, 1, MinOf(idx) - 1)

\* str.strip()
strip(s) ==
    LET solid == {i \in 1..Len(s) : s[i] # " "}
    IN  IF solid = {} THEN <<>>
        ELSE SubSeq(s, MinOf(solid), CHOOSE j \in solid : \A k \in solid : k <= j)

LowerTok(t) ==
    CASE t = "Krakow" -> "krakow"
      [] t = "Wola" -> "wola"
      [] t = "Zator" -> "zator"
      [] t = "Tarnow" -> "tarnow"
      [] t = "Dabrowa" -> "dabrowa"
      [] t = "Wielicki" -> "wielicki"
      [] t = "Osiek" -> "osiek"
      [] t = "No location" -> "no location"
      [] OTHER -> t

\* str.lower()
lower(s) == [i \in 1..Len(s) |-> LowerTok(s[i])]

\* `a in b` on str
IsSubstring(a, b) ==
    \E i \in 1..(Len(b) - Len(a) + 1) : SubSeq(b, i, i + Len(a) - 1) = a

TownOf(location) == lower(strip(SplitParen(location)))

(***************************************************************************)
(* nieruchomosci_online.py: get_distance_from_krakow.                      *)
(* The value is [res, county, calls, raised]: the returned list, whether    *)
(* the county loop was entered, how many times geocode was called, and     *)
(* whether the call ended in an exception instead of returning.            *)
(***************************************************************************)
\* the distance test left out
InRangeAlways(d) == TRUE

\* `if distance <= MAX_DISTANCE_KM`
InRange(d) == d <= MAX_DISTANCE_KM * 100

\* the gazetteer loop leaving at its first stored coordinate within range
FromFileFirstOnly(cs) ==
    LET hit == {i \in 1..Len(cs) : geodesic(cs[i]) <= MAX_DISTANCE_KM * 100}
    IN  IF hit = {} THEN <<>>
        ELSE LET c == cs[MinOf(hit)] IN << <<geodesic(c), c[1], c[2]>> >>

\* the gazetteer loop: one tuple per stored coordinate within range, in file order
RECURSIVE FromFile(_)
FromFile(cs) ==
    IF cs = <<>> THEN <<>>
    ELSE LET c == Head(cs)
             d == geodesic(c)
         IN  (IF InRange(d) THEN << <<d, c[1], c[2]>> >> ELSE <<>>) \o FromFile(Tail(cs))

\* the county loop left out
FirstCountyNone(town) == 0

\* the first allow-listed county that occurs in the town token, or 0
FirstCounty(town) ==
    LET hit == {i \in 1..Len(ALLOWED_COUNTIES) : IsSubstring(ALLOWED_COUNTIES[i], town)}
    IN  IF hit = {} THEN 0 ELSE MinOf(hit)

RECURSIVE GeopyLoop(_, _)

\* geocode raising at attempt i with no handler around it
GeocodeRaisedUncaught(answers, i) ==
    [res |-> <<>>, county |-> TRUE, calls |-> i, raised |-> TRUE]

\* `except Exception as e`: the exception of attempt i is printed and the loop goes on
GeocodeRaised(answers, i) == GeopyLoop(answers, i + 1)

\* the retry loop going on after a place beyond the maximum distance
RECURSIVE GeopyLoopKeepsTrying(_, _)
GeopyLoopKeepsTrying(answers, i) ==
    IF i > max_retries
    THEN [res |-> <<>>, county |-> TRUE, calls |-> max_retries, raised |-> FALSE]
    ELSE LET a == answers[i]
         IN  IF a.kind # "place" THEN GeopyLoopKeepsTrying(answers, i + 1)
             ELSE LET d == geodesic(a.at)
                  IN  IF d <= MAX_DISTANCE_KM * 100
                      THEN [res |-> << <<d, a.at[1], a.at[2]>> >>, county |-> TRUE,
                            calls |-> i, raised |-> FALSE]
                      ELSE GeopyLoopKeepsTrying(answers, i + 1)

\* the retry loop over geolocator.geocode, from attempt i on
GeopyLoop(answers, i) ==
    IF i > max_retries
    THEN [res |-> <<>>, county |-> TRUE, calls |-> max_retries, raised |-> FALSE]
    ELSE LET a == answers[i]
         IN  IF a.kind = "raise" THEN GeocodeRaised(answers, i)
             ELSE IF a.kind = "none" THEN GeopyLoop(answers, i + 1)
             ELSE LET d == geodesic(a.at)
                  IN  IF InRange(d)
                      THEN [res |-> << <<d, a.at[1], a.at[2]>> >>, county |-> TRUE,
                            calls |-> i, raised |-> FALSE]
                      ELSE [res |-> <<>>, county |-> TRUE, calls |-> i, raised |-> FALSE]

\* the gazetteer step as a version that treats presence in town_list.txt as final
GazetteerStepAuthoritative(town) ==
    town \notin DOMAIN TOWN_COORDS

\* whether the gazetteer step hands over to the county table: the town is not
\* in town_list.txt, or `if results: return results` found results empty
GazetteerStepPasses(town) ==
    town \notin DOMAIN TOWN_COORDS \/ FromFile(TOWN_COORDS[town]) = <<>>

get_distance_from_krakow(location, answers) ==
    LET town == TownOf(location)
    IN  IF ~GazetteerStepPasses(town)
        THEN [res |-> FromFile(TOWN_COORDS[town]), county |-> FALSE, calls |-> 0,
              raised |-> FALSE]
        ELSE LET k == FirstCounty(town)
             IN  IF k # 0
                 THEN LET c == COUNTY_COORDS[ALLOWED_COUNTIES[k]]
                          d == geodesic(c)
                      IN  [res |-> IF InRange(d) THEN << <<d, c[1], c[2]>> >> ELSE <<>>,
                           county |-> TRUE, calls |-> 0, raised |-> FALSE]
                 ELSE GeopyLoop(answers, 1)

(***************************************************************************)
(* olx.py: get_distance_from_krakow.  One geocode call, no county table.   *)
(***************************************************************************)
olx_get_distance_from_krakow(location, answers) ==
    LET town == TownOf(location)
        fromFile == IF town \in DOMAIN TOWN_COORDS THEN FromFile(TOWN_COORDS[town]) ELSE <<>>
    IN  IF fromFile # <<>>
        THEN [res |-> fromFile, county |-> FALSE, calls |-> 0, raised |-> FALSE]
        ELSE LET a == answers[1]
             IN  [res |-> IF a.kind = "place" /\ InRange(geodesic(a.at))
                          THEN << <<geodesic(a.at), a.at[1], a.at[2]>> >> ELSE <<>>,
                  county |-> FALSE, calls |-> 1, raised |-> FALSE]

(***************************************************************************)
(* The resolvers called on their own.                                      *)
(***************************************************************************)
\* one HTTP request: status 200, another status, or requests raising
HttpAnswers == {"ok", "rejected", "raise"}

\* olx.py before its first run: no spreadsheet
OlxIdle ==
    [pc |-> "idle", file |-> <<>>, today |-> 1, df_existing |-> <<>>, all_listings |-> <<>>,
     page |-> 1, empty_pages |-> 0, cards |-> 0, visited |-> <<>>, runs |-> 0, handled |-> 0]

SHEET_NAMES == <<"powiat krakowski", "powiat wielicki">>

\* otodom.py before its first run: no workbook.  sheets[n] is sheet
\* SHEET_NAMES[n] of the workbook on disk, before[n] what it held when the
\* run began, previous the frame update_sheet read, df_old the frame it built
OtodomIdle ==
    [pc |-> "idle", exists |-> FALSE,
     sheets |-> [n \in 1..Len(SHEET_NAMES) |-> [present |-> FALSE, rows |-> <<>>]],
     before |-> [n \in 1..Len(SHEET_NAMES) |-> <<>>],
     sheet |-> 1, results |-> <<>>, links |-> {}, previous |-> <<>>, df_old |-> <<>>,
     today |-> 1, runs |-> 0, handled |-> 0]

\* main() of nieruchomosci_online.py before its page loop: the page to
\* fetch, the links met on the page in hand, whether the loop was left by
\* break, and how many geocoder calls were made since the last time.sleep
CrawlIdle == [page |-> 1, seen_links |-> {}, broke |-> FALSE, calls_since_sleep |-> 0]

\* no OneDrive request made yet in this run
NoRequests == [auth |-> "none", download |-> "none", upload_auth |-> "none", upload |-> "none"]

NoGeo == [fn |-> "none", location |-> <<>>, answers |-> <<>>,
          res |-> <<>>, county |-> FALSE, calls |-> 0, raised |-> FALSE]

ResolveNier ==
    /\ \E location \in Locations, answers \in AnswerSeqs :
          LET out == get_distance_from_krakow(location, answers)
          IN  geo' = [fn |-> "nier", location |-> location, answers |-> answers,
                      res |-> out.res, county |-> out.county, calls |-> out.calls,
                      raised |-> out.raised]
    /\ UNCHANGED mainVars

ResolveOlx ==
    /\ \E location \in Locations, answers \in AnswerSeqs :
          LET out == olx_get_distance_from_krakow(location, answers)
          IN  geo' = [fn |-> "olx", location |-> location, answers |-> answers,
                      res |-> out.res, county |-> out.county, calls |-> out.calls,
                      raised |-> out.raised]
    /\ UNCHANGED mainVars

(***************************************************************************)
(* otodom.py: safe_geocode(loc, max_retries=2, timeout=5).  A geocode call *)
(* returns (a list of places, or None), raises one of the four exception   *)
(* classes the except clause names ("raise"), or raises another exception  *)
(* ("raise_other"), which leaves the function.                             *)
(***************************************************************************)
safe_geocode_max_retries == 2

SafeGeocodeAnswers == GeoAnswers \cup { [kind |-> "raise_other", at |-> <<0, 0>>] }

SafeGeocodeAnswerSeqs == [1..safe_geocode_max_retries -> SafeGeocodeAnswers]

\* safe_geocode trying again after a None answer
RECURSIVE safe_geocode_retries_none(_, _)
safe_geocode_retries_none(answers, i) ==
    IF i > safe_geocode_max_retries
    THEN [res |-> <<>>, calls |-> safe_geocode_max_retries, raised |-> FALSE]
    ELSE LET a == answers[i]
         IN  CASE a.kind = "place"       -> [res |-> <<a.at>>, calls |-> i, raised |-> FALSE]
               [] a.kind = "raise_other" -> [res |-> <<>>, calls |-> i, raised |-> TRUE]
               [] OTHER                  -> safe_geocode_retries_none(answers, i + 1)

\* for attempt in range(max_retries), from attempt i on
RECURSIVE safe_geocode(_, _)
safe_geocode(answers, i) ==
    IF i > safe_geocode_max_retries
    THEN [res |-> <<>>, calls |-> safe_geocode_max_retries, raised |-> FALSE]
    ELSE LET a == answers[i]
         IN  CASE a.kind = "place"       -> [res |-> <<a.at>>, calls |-> i, raised |-> FALSE]
               [] a.kind = "none"        -> [res |-> <<>>, calls |-> i, raised |-> FALSE]
               [] a.kind = "raise_other" -> [res |-> <<>>, calls |-> i, raised |-> TRUE]
               [] a.kind = "raise"       -> safe_geocode(answers, i + 1)

SafeGeocode ==
    /\ \E location \in Locations, answers \in SafeGeocodeAnswerSeqs :
          LET out == safe_geocode(answers, 1)
          IN  geo' = [fn |-> "safe_geocode", location |-> location, answers |-> answers,
                      res |-> out.res, county |-> FALSE, calls |-> out.calls,
                      raised |-> out.raised]
    /\ UNCHANGED mainVars

(***************************************************************************)
(* nieruchomosci_online.py and olx.py: load_towns (the two are the same).  *)
(* A line of town_list.txt is the sequence of its fields, what             *)
(* line.strip().split("|") gives.  The value is [towns, raised]: the dict  *)
(* built, and whether float() raised ValueError, which nothing catches     *)
(* (the call is at module level).                                          *)
(***************************************************************************)
\* lines of the town file read by one call
MaxLines == 3

TownLines ==
    { <<"Wola", "49.9753", "19.8283">>,
      <<"Wola", "49.8009", "20.4799">>,
      <<"Zator", "49.9964", "19.4380">>,
      <<"Wola", "49.9753">>,
      <<"Wola", "49.9753", "19.8283", "gmina">>,
      <<"Wola", "brak", "19.8283">>,
      <<"">> }

TownFiles == UNION {[1..n -> TownLines] : n \in 0..MaxLines}

\* float(text): <<value>> in 1e-4 degree, or <<>> for ValueError
float(text) ==
    CASE text = "49.9753" -> <<499753>>
      [] text = "19.8283" -> <<198283>>
      [] text = "49.8009" -> <<498009>>
      [] text = "20.4799" -> <<204799>>
      [] text = "49.9964" -> <<499964>>
      [] text = "19.4380" -> <<194380>>
      [] OTHER -> <<>>

\* towns[key].append(coord) on a defaultdict(list)
AppendTo(towns, key, coord) ==
    IF key \in DOMAIN towns
    THEN [towns EXCEPT ![key] = Append(@, coord)]
    ELSE (key :> <<coord>>) @@ towns

\* the loop `for line in f`, from the first line of `lines` on
RECURSIVE load_towns(_, _)
load_towns(lines, towns) ==
    IF lines = <<>> THEN [towns |-> towns, raised |-> FALSE]
    ELSE LET parts == Head(lines)
         IN  IF Len(parts) # 3 THEN load_towns(Tail(lines), towns)
             ELSE LET lat == float(parts[2])
                      lon == float(parts[3])
                  IN  IF lat = <<>> \/ lon = <<>>
                      THEN [towns |-> towns, raised |-> TRUE]
                      ELSE load_towns(Tail(lines),
                                      AppendTo(towns, LowerTok(parts[1]), <<lat[1], lon[1]>>))

LoadTowns ==
    /\ \E lines \in TownFiles :
          LET out == load_towns(lines, <<>>)
          IN  geo' = [fn |-> "load_towns", lines |-> lines,
                      towns |-> out.towns, raised |-> out.raised]
    /\ UNCHANGED mainVars

(***************************************************************************)
(* olx.py: get_with_retry(url, headers, retries=5).  One requests.get      *)
(* answers with status 200 ("ok"), with another status ("rejected"), or    *)
(* raises ("raise").  The value is [response, attempts, raised]: response  *)
(* is <<i>> for the response of attempt i and <<>> for None.               *)
(***************************************************************************)
retries == 5

GetAnswerSeqs == [1..retries -> HttpAnswers]

\* get_with_retry returning the first response it gets, whatever its status
RECURSIVE get_with_retry_any_status(_, _)
get_with_retry_any_status(answers, i) ==
    IF i > retries THEN [response |-> <<>>, attempts |-> retries, raised |-> FALSE]
    ELSE IF answers[i] # "raise"
         THEN [response |-> <<i>>, attempts |-> i, raised |-> FALSE]
         ELSE get_with_retry_any_status(answers, i + 1)

\* `for _ in range(retries)`, from attempt i on
RECURSIVE get_with_retry(_, _)
get_with_retry(answers, i) ==
    IF i > retries THEN [response |-> <<>>, attempts |-> retries, raised |-> FALSE]
    ELSE IF answers[i] = "ok"
         THEN [response |-> <<i>>, attempts |-> i, raised |-> FALSE]
         ELSE get_with_retry(answers, i + 1)

GetWithRetry ==
    /\ \E answers \in GetAnswerSeqs :
          LET out == get_with_retry(answers, 1)
          IN  geo' = [fn |-> "get_with_retry", answers |-> answers,
                      response |-> out.response, attempts |-> out.attempts,
                      raised |-> out.raised]
    /\ UNCHANGED mainVars

(***************************************************************************)
(* nieruchomosci_online.py: main().  One run is StartRun, one step per     *)
(* listing of clean_listings (over all pages fetched, so a link can come   *)
(* again: seen_links is per page), then FinishRun.  A row keeps the        *)
(* spreadsheet's columns.                                                  *)
(***************************************************************************)
Range(s) == {s[i] : i \in 1..Len(s)}

LinkSet(rows) == {rows[i].Link : i \in 1..Len(rows)}

Key(r) == <<r.Link, r.Latitude, r.Longitude>>

\* df[df['Link'] == link]
RowsOfLink(rows, link) == SelectSeq(rows, LAMBDA r : r.Link = link)

\* the first-find price read from the column 'Price last updated'
FirstFindWrongColumn(existing, link, price, day) ==
    LET existing_row == RowsOfLink(existing, link)
    IN  IF existing_row # <<>>
        THEN [price |-> existing_row[1].PriceLastUpdated,
              date  |-> existing_row[1].DateFirstFound]
        ELSE [price |-> price, date |-> day]

\* the first-find values taken from the current listing even when a row exists
FirstFindFromListing(existing, link, price, day) ==
    [price |-> price, date |-> day]

\* existing_row.iloc[0] when a row with the link exists, else today's values
FirstFind(existing, link, price, day) ==
    LET existing_row == RowsOfLink(existing, link)
    IN  IF existing_row # <<>>
        THEN [price |-> existing_row[1].PriceAtFirstFind,
              date  |-> existing_row[1].DateFirstFound]
        ELSE [price |-> price, date |-> day]

\* the rows appended to results for one listing: one per tuple of coords_list
\* lines 249-273: `if coords_list:` and one row per tuple of coords_list
NewRows(existing, listing, day) ==
    LET ff == FirstFind(existing, listing.link, listing.price, day)
    IN  [i \in 1..Len(listing.coords_list) |->
            [Title            |-> listing.title,
             Location         |-> listing.location,
             PriceAtFirstFind |-> ff.price,
             DateFirstFound   |-> ff.date,
             DateLastUpdated  |-> day,
             PriceLastUpdated |-> listing.price,
             Distance         |-> listing.coords_list[i][1],
             Active           |-> TRUE,
             Link             |-> listing.link,
             Latitude         |-> listing.coords_list[i][2],
             Longitude        |-> listing.coords_list[i][3]]]

\* the set holding only the link just seen
add_link_overwrite(links, link) == {link}

\* current_links.add(link)
add_link(links, link) == links \cup {link}

\* current_links after the listings
RECURSIVE SeenLinks(_)
SeenLinks(listings) ==
    IF listings = <<>> THEN {}
    ELSE add_link(SeenLinks(SubSeq(listings, 1, Len(listings) - 1)),
                  listings[Len(listings)].link)

\* the rows of missing links left as they are
MarkMissingNoop(existing, seen) == existing

\* df_existing.loc[row, 'Active'] = False for every link not seen in this run
MarkMissing(existing, seen) ==
    [i \in 1..Len(existing) |->
        IF existing[i].Link \notin seen
        THEN [existing[i] EXCEPT !.Active = FALSE]
        ELSE existing[i]]

\* duplicates dropped by Link alone
RECURSIVE DropByLink(_, _)
DropByLink(rows, seen) ==
    IF rows = <<>> THEN <<>>
    ELSE IF Head(rows).Link \in seen
         THEN DropByLink(Tail(rows), seen)
         ELSE <<Head(rows)>> \o DropByLink(Tail(rows), seen \cup {Head(rows).Link})

\* drop_duplicates(subset=['Link','Latitude','Longitude']): the first row of each key stays
RECURSIVE DropDup(_, _)
DropDup(rows, seen) ==
    IF rows = <<>> THEN <<>>
    ELSE IF Key(Head(rows)) \in seen
         THEN DropDup(Tail(rows), seen)
         ELSE <<Head(rows)>> \o DropDup(Tail(rows), seen \cup {Key(Head(rows))})

drop_duplicates_by_link(rows) == DropByLink(rows, {})

drop_duplicates(rows) == DropDup(rows, {})

\* df_existing[df_existing['Active'] == False]
Inactive(rows) == SelectSeq(rows, LAMBDA r : r.Active = FALSE)

\* pd.concat([inactive rows, df_new]) then drop_duplicates
Combine(existing, new) == drop_duplicates(Inactive(existing) \o new)

\* the whole of main() on a loaded sheet and a list of handled listings
RECURSIVE ResultsOf(_, _, _)
ResultsOf(existing, listings, day) ==
    IF listings = <<>> THEN <<>>
    ELSE NewRows(existing, Head(listings), day) \o ResultsOf(existing, Tail(listings), day)

Reconcile(existing, listings, day) ==
    Combine(MarkMissing(existing, SeenLinks(listings)),
            ResultsOf(existing, listings, day))

\* what get_distance_from_krakow(location) can return, over all the geocoder can do
CoordsListsOf ==
    [location \in RunLocations |->
        {get_distance_from_krakow(location, answers).res : answers \in AnswerSeqs}]

\* lines 57, 185-206: a run starts on the day of the last run or on the next
\* one, and the sheet is loaded (read_excel gives back the rows written)
StartRun ==
    /\ pc \in {"idle", "done"}
    /\ runs < MaxRuns
    /\ runs' = runs + 1
    /\ today' \in (IF runs = 0 THEN {today} ELSE {today, today + 1})
    /\ df_existing' = file
    /\ results' = <<>>
    /\ current_links' = {}
    /\ batch' = <<>>
    /\ pc' = "scrape"
    /\ saved' = FALSE
    /\ UNCHANGED <<file, created, handled, geo, cloud, onedrive, olx, otodom, crawl>>

\* lines 234-273: one listing is parsed, resolved and turned into rows
ScrapeListing ==
    /\ pc = "scrape"
    /\ handled < MaxListings
    /\ handled' = handled + 1
    /\ \E link \in Links, title \in Titles, price \in Prices, location \in RunLocations :
        \E coords_list \in CoordsListsOf[location] :
          LET listing == [link |-> link, title |-> title, price |-> price,
                          location |-> location, coords_list |-> coords_list]
          IN  /\ current_links' = add_link(current_links, link)
              /\ results' = results \o NewRows(df_existing, listing, today)
              /\ batch' = Append(batch, listing)
    /\ UNCHANGED <<file, pc, today, df_existing, created, runs, geo, cloud, saved, onedrive, olx, otodom, crawl>>

\* lines 239-276: an exception after current_links.add(link) (a stored
\* coordinate geodesic rejects, a column missing from the sheet): the link
\* counts as seen and no row is built
ScrapeListingRaises ==
    /\ pc = "scrape"
    /\ handled < MaxListings
    /\ handled' = handled + 1
    /\ \E link \in Links, title \in Titles, price \in Prices, location \in RunLocations :
          /\ current_links' = add_link(current_links, link)
          /\ batch' = Append(batch, [link |-> link, title |-> title, price |-> price,
                                     location |-> location, coords_list |-> <<>>])
    /\ UNCHANGED <<file, pc, today, df_existing, results, created, runs, geo,
                   cloud, saved, onedrive, olx, otodom, crawl>>

\* the first-find values the rows of a link carry
FirstFindsOf(rows, link) ==
    {[price |-> r.PriceAtFirstFind, date |-> r.DateFirstFound] :
        r \in {x \in Range(rows) : x.Link = link}}

\* lines 279-293: missing links are marked, the sheets combined and saved
FinishRun ==
    /\ pc = "scrape"
    /\ df_existing' = MarkMissing(df_existing, current_links)
    /\ file' = Combine(df_existing', results)
    /\ pc' = "done"
    /\ created' = [l \in Links |->
                      IF created[l] = {} THEN FirstFindsOf(file', l) ELSE created[l]]
    /\ saved' = TRUE
    /\ UNCHANGED <<today, results, current_links, batch, runs, handled, geo, cloud, onedrive, olx, otodom, crawl>>

Init ==
    /\ file = <<>>
    /\ pc = "idle"
    /\ today = 1
    /\ df_existing = <<>>
    /\ results = <<>>
    /\ current_links = {}
    /\ batch = <<>>
    /\ created = [l \in Links |-> {}]
    /\ runs = 0
    /\ handled = 0
    /\ geo = NoGeo
    /\ cloud = <<>>
    /\ saved = FALSE
    /\ onedrive = NoRequests
    /\ olx = OlxIdle
    /\ otodom = OtodomIdle
    /\ crawl = CrawlIdle

(***************************************************************************)
(* nieruchomosci_online.py: main() page by page.  A page request is        *)
(* answered with status 200 ("ok"), with another status ("rejected"), or   *)
(* requests raises ("raise"), which nothing catches.                       *)
(***************************************************************************)
MaxCrawlRuns == 2

\* listings handled by all the runs together
MaxCrawlListings == 2

MAX_PAGES == 20

\* the non-200 answer taken for an exception that ends the run
after_response_aborts(status) ==
    CASE status = "ok"       -> "listings"
      [] status = "rejected" -> "aborted"
      [] status = "raise"    -> "aborted"

\* lines 211-214: where main goes after requests.get
after_response(status) ==
    CASE status = "ok"       -> "listings"
      [] status = "rejected" -> "reconcile"
      [] status = "raise"    -> "aborted"

\* what get_distance_from_krakow(location) can return and how many geocoder
\* calls it makes, over all the geocoder can do
CrawlResolutionsOf ==
    [location \in RunLocations |->
        {[res   |-> get_distance_from_krakow(location, answers).res,
          calls |-> get_distance_from_krakow(location, answers).calls] :
             answers \in AnswerSeqs}]

\* lines 185-206: the sheet is loaded; nieruchomosci_online.py is run once a day
CrawlStart ==
    /\ pc \in {"idle", "done", "aborted"}
    /\ runs < MaxCrawlRuns
    /\ runs' = runs + 1
    /\ today' = IF runs = 0 THEN today ELSE today + 1
    /\ df_existing' = file
    /\ results' = <<>>
    /\ current_links' = {}
    /\ batch' = <<>>
    /\ pc' = "fetch"
    /\ saved' = FALSE
    /\ crawl' = CrawlIdle
    /\ UNCHANGED <<file, created, handled, geo, cloud, onedrive, olx, otodom>>

\* lines 208-221: the next page is requested
CrawlFetchPage ==
    /\ pc = "fetch"
    /\ crawl.page <= MAX_PAGES
    /\ \E status \in HttpAnswers :
          /\ pc' = after_response(status)
          /\ crawl' = [crawl EXCEPT !.seen_links = {}, !.broke = (status = "rejected")]
    /\ UNCHANGED <<file, today, df_existing, results, current_links, batch, created, runs,
                   handled, geo, cloud, saved, onedrive, olx, otodom>>

\* lines 222-276: one listing of the page; a link met again on the page is
\* left out (lines 224-226), an exception after current_links.add skips the
\* listing
CrawlListing ==
    /\ pc = "listings"
    /\ handled < MaxCrawlListings
    /\ handled' = handled + 1
    /\ \E link \in Links \ crawl.seen_links, title \in Titles, price \in Prices,
          location \in RunLocations, raises \in BOOLEAN :
        \E out \in CrawlResolutionsOf[location] :
          LET listing == [link |-> link, title |-> title, price |-> price,
                          location |-> location,
                          coords_list |-> IF raises THEN <<>> ELSE out.res]
          IN  /\ current_links' = add_link(current_links, link)
              /\ results' = results \o NewRows(df_existing, listing, today)
              /\ crawl' = [crawl EXCEPT
                              !.seen_links = @ \cup {link},
                              !.calls_since_sleep = @ + (IF raises THEN 0 ELSE out.calls)]
    /\ UNCHANGED <<file, pc, today, df_existing, batch, created, runs, geo, cloud, saved,
                   onedrive, olx, otodom>>

\* line 277: time.sleep(1) after the listings of the page, then the next page
CrawlEndPage ==
    /\ pc = "listings"
    /\ pc' = "fetch"
    /\ crawl' = [crawl EXCEPT !.page = @ + 1, !.calls_since_sleep = 0]
    /\ UNCHANGED <<file, today, df_existing, results, current_links, batch, created, runs,
                   handled, geo, cloud, saved, onedrive, olx, otodom>>

\* line 208: range(1, MAX_PAGES + 1) is used up
CrawlLastPageDone ==
    /\ pc = "fetch"
    /\ crawl.page > MAX_PAGES
    /\ pc' = "reconcile"
    /\ UNCHANGED <<file, today, df_existing, results, current_links, batch, created, runs,
                   handled, geo, cloud, saved, onedrive, olx, otodom, crawl>>

\* lines 279-293: missing links are marked, the sheets combined and saved
CrawlFinish ==
    /\ pc = "reconcile"
    /\ df_existing' = MarkMissing(df_existing, current_links)
    /\ file' = Combine(df_existing', results)
    /\ pc' = "done"
    /\ created' = [l \in Links |->
                      IF created[l] = {} THEN FirstFindsOf(file', l) ELSE created[l]]
    /\ saved' = TRUE
    /\ UNCHANGED <<today, results, current_links, batch, runs, handled, geo, cloud, onedrive,
                   olx, otodom, crawl>>

NextPages ==
    \/ CrawlStart \/ CrawlFetchPage \/ CrawlListing
    \/ CrawlEndPage \/ CrawlLastPageDone \/ CrawlFinish

SpecPages == Init /\ [][NextPages]_vars

(***************************************************************************)
(* nieruchomosci_online.py: main() with CLIENT_ID and REFRESH_TOKEN set.   *)
(* A request is answered with status 200 ("ok"), with another status       *)
(* ("rejected"), or requests raises ("raise").  An exception that main()   *)
(* does not catch ends the run: pc = "aborted".                            *)
(***************************************************************************)
\* runs of main() with credentials
MaxCloudRuns == 2

\* listings handled by all these runs together
MaxCloudListings == 2

\* authenticate() returning a token whatever the answer
authenticate_swallows(answer) == "token"

\* lines 78-89: the token, or the exception of line 88 (or of requests.post)
authenticate(answer) == IF answer = "ok" THEN "token" ELSE "raise"

\* lines 110-122: the local file after the call that returned (answer "ok" or "rejected")
download_from_onedrive(local, remote, answer) == IF answer = "ok" THEN remote ELSE local

\* lines 93-106: the OneDrive copy after the call that returned
upload_to_onedrive(local, remote, answer) == IF answer = "ok" THEN local ELSE remote

Stopped == pc \in {"idle", "end", "aborted"}

\* lines 55-57, 178-180: the process starts and asks for a token.  It runs
\* where the last run left its spreadsheet, or on a machine that has no
\* local copy (os.path.exists(EXCEL_FILE) is False there).
BeginRun ==
    /\ Stopped
    /\ runs < MaxCloudRuns
    /\ runs' = runs + 1
    /\ today' \in (IF runs = 0 THEN {today} ELSE {today, today + 1})
    /\ results' = <<>>
    /\ current_links' = {}
    /\ batch' = <<>>
    /\ saved' = FALSE
    /\ \E answer \in HttpAnswers :
          /\ onedrive' = [NoRequests EXCEPT !.auth = answer]
          /\ pc' = IF authenticate(answer) = "raise" THEN "aborted" ELSE "download"
    /\ file' \in {file, <<>>}
    /\ UNCHANGED <<df_existing, created, handled, geo, cloud, olx, otodom, crawl>>

\* line 181: download_from_onedrive(EXCEL_FILE, token)
Download ==
    /\ pc = "download"
    /\ \E answer \in HttpAnswers :
          /\ onedrive' = [onedrive EXCEPT !.download = answer]
          /\ IF answer = "raise"
             THEN pc' = "aborted" /\ file' = file
             ELSE pc' = "load" /\ file' = download_from_onedrive(file, cloud, answer)
    /\ UNCHANGED <<today, df_existing, results, current_links, batch, created, runs,
                   handled, geo, cloud, saved, olx, otodom, crawl>>

\* lines 185-204: pd.read_excel of the local file gives its rows or raises
Load ==
    /\ pc = "load"
    /\ \/ df_existing' = file /\ pc' = "scrape"
       \/ file # <<>> /\ df_existing' = df_existing /\ pc' = "aborted"
    /\ UNCHANGED <<file, today, results, current_links, batch, created, runs,
                   handled, geo, cloud, saved, onedrive, olx, otodom, crawl>>

CloudScrapeListing == handled < MaxCloudListings /\ ScrapeListing

CloudScrapeListingRaises == handled < MaxCloudListings /\ ScrapeListingRaises

\* line 341: token = authenticate(), after the spreadsheet and the map were saved
UploadAuth ==
    /\ pc = "done"
    /\ \E answer \in HttpAnswers :
          /\ onedrive' = [onedrive EXCEPT !.upload_auth = answer]
          /\ pc' = IF authenticate(answer) = "raise" THEN "aborted" ELSE "upload"
    /\ UNCHANGED <<file, today, df_existing, results, current_links, batch, created, runs,
                   handled, geo, cloud, saved, olx, otodom, crawl>>

\* line 342: upload_to_onedrive(EXCEL_FILE, token)
Upload ==
    /\ pc = "upload"
    /\ \E answer \in HttpAnswers :
          /\ onedrive' = [onedrive EXCEPT !.upload = answer]
          /\ IF answer = "raise"
             THEN pc' = "aborted" /\ cloud' = cloud
             ELSE pc' = "end" /\ cloud' = upload_to_onedrive(file, cloud, answer)
    /\ UNCHANGED <<file, today, df_existing, results, current_links, batch, created, runs,
                   handled, geo, saved, olx, otodom, crawl>>

NextCloud ==
    \/ BeginRun \/ Download \/ Load
    \/ CloudScrapeListing \/ CloudScrapeListingRaises \/ FinishRun
    \/ UploadAuth \/ Upload

SpecCloud == Init /\ [][NextCloud]_vars

(***************************************************************************)
(* nieruchomosci_online.py: main(), lines 234-248, the elements of one     *)
(* listing read from the page.  An element that is there is <<value>>, one *)
(* that is missing is <<>>.  Prices are the texts of the page here.        *)
(***************************************************************************)
\* listings handled by all the runs together
MaxParsed == 2

RawListings ==
    [h2       : {<<>>, <<[text |-> "Dzialka", href |-> "L1"]>>},
     price    : {<<>>, <<"100 zl">>},
     province : {<<>>} \cup {<<location>> : location \in RunLocations}]

\* line 237
TitleOf(raw) == IF raw.h2 # <<>> THEN raw.h2[1].text ELSE "No title"

\* line 238
LinkOf(raw) == IF raw.h2 # <<>> THEN raw.h2[1].href ELSE "No link"

\* lines 241-243
PriceOf(raw) == IF raw.price # <<>> THEN raw.price[1] ELSE "No price"

\* lines 245-246
LocationOf(raw) == IF raw.province # <<>> THEN raw.province[1] ELSE <<"No location">>

ParsedCoordsListsOf ==
    [location \in RunLocations \cup {<<"No location">>} |->
        {get_distance_from_krakow(location, answers).res : answers \in AnswerSeqs}]

\* lines 234-273: one listing is read from the page, resolved and turned into rows
ParseListing ==
    /\ pc = "scrape"
    /\ handled < MaxParsed
    /\ handled' = handled + 1
    /\ \E raw \in RawListings :
        \E coords_list \in ParsedCoordsListsOf[LocationOf(raw)] :
          LET listing == [link |-> LinkOf(raw), title |-> TitleOf(raw), price |-> PriceOf(raw),
                          location |-> LocationOf(raw), coords_list |-> coords_list,
                          raw |-> raw]
          IN  /\ current_links' = add_link(current_links, listing.link)
              /\ results' = results \o NewRows(df_existing, listing, today)
              /\ batch' = Append(batch, listing)
    /\ UNCHANGED <<file, pc, today, df_existing, created, runs, geo, cloud, saved, onedrive, olx, otodom, crawl>>

NextParse == StartRun \/ ParseListing \/ FinishRun

SpecParse == Init /\ [][NextParse]_vars

(***************************************************************************)
(* olx.py: main(), run without OneDrive credentials.  A date is            *)
(* [kind |-> "iso", day |-> n] for a 'yyyy-mm-dd' text and [kind |->       *)
(* "dzisiaj"] or [kind |-> "wczoraj"] for the words of the page.           *)
(***************************************************************************)
\* runs of main()
MaxOlxRuns == 2

\* cards handled by all the runs together
MaxOlxCards == 2

\* pages fetched by one run
MaxOlxPages == 4

max_empty_pages == 3

\* the date text of a card
OlxDates == {[kind |-> "wczoraj", day |-> 0]}

\* lines 243-277; a 'yyyy-mm-dd' text matches no format and comes back as it is
parse_olx_date(date_str, day) ==
    CASE date_str.kind = "dzisiaj" -> [kind |-> "iso", day |-> day]
      [] date_str.kind = "wczoraj" -> [kind |-> "iso", day |-> day - 1]
      [] OTHER -> date_str

\* lines 309-311 and 322-325: read_excel, drop_duplicates(subset="Link"), dates parsed
OlxLoad(rows, day) ==
    LET first == DropByLink(rows, {})
    IN  [i \in 1..Len(first) |->
            [first[i] EXCEPT !.DateFirstFound = parse_olx_date(@, day),
                             !.DateLastUpdated = parse_olx_date(@, day)]]

\* what get_with_retry can give back for a page: a response or None
PageResponses == {get_with_retry(answers, 1).response # <<>> : answers \in GetAnswerSeqs}

\* the price text of a card, after clean_price
OlxPrices == {100}

OlxCoordsListsOf ==
    [location \in RunLocations |->
        {olx_get_distance_from_krakow(location, answers).res : answers \in AnswerSeqs}]

\* lines 377-390: one row per tuple of coords_list
OlxRows(title, link, price, location, date_added, coords_list) ==
    [i \in 1..Len(coords_list) |->
        [Title            |-> title,
         Location         |-> location,
         PriceAtFirstFind |-> price,
         DateFirstFound   |-> date_added,
         DateLastUpdated  |-> date_added,
         PriceLastUpdated |-> price,
         Distance         |-> coords_list[i][1],
         Active           |-> TRUE,
         Link             |-> link,
         Latitude         |-> coords_list[i][2],
         Longitude        |-> coords_list[i][3]]]

\* lines 399-421: df_new left-merged with the first-find columns of
\* df_existing on Link, Active from check_if_active of each row
OlxMerge(existing, new, active) ==
    [i \in 1..Len(new) |->
        LET old == SelectSeq(existing, LAMBDA r : r.Link = new[i].Link)
        IN  IF old = <<>> THEN [new[i] EXCEPT !.Active = active[i]]
            ELSE [new[i] EXCEPT !.DateFirstFound = old[1].DateFirstFound,
                                !.PriceAtFirstFind = old[1].PriceAtFirstFind,
                                !.Active = active[i]]]

\* the counter that forgets to start again on a page with cards
empty_pages_never_reset(empty_pages, got) ==
    IF got = "cards" THEN empty_pages ELSE empty_pages + 1

\* lines 338, 346 and 350: empty_pages += 1 on a failed or empty page,
\* empty_pages = 0 on a page with cards
empty_pages_after(empty_pages, got) ==
    IF got = "cards" THEN 0 ELSE empty_pages + 1

\* lines 308-331: the sheet is read and the loop variables set; olx.py is
\* run once a day
OlxStart ==
    /\ olx.pc \in {"idle", "done"}
    /\ olx.runs < MaxOlxRuns
    /\ \E day \in (IF olx.runs = 0 THEN {olx.today} ELSE {olx.today + 1}) :
          olx' = [olx EXCEPT !.pc = "loop", !.runs = @ + 1, !.today = day,
                             !.df_existing = OlxLoad(olx.file, day),
                             !.all_listings = <<>>, !.page = 1, !.empty_pages = 0,
                             !.cards = 0, !.visited = <<>>]
    /\ UNCHANGED <<nierVars, geo, otodom, crawl>>

\* lines 333-350: one turn of the while loop up to the cards of the page
OlxFetchPage ==
    /\ olx.pc = "loop"
    /\ olx.empty_pages < max_empty_pages
    /\ olx.page <= MaxOlxPages
    /\ \E response \in PageResponses, cards \in BOOLEAN :
              IF ~response
              THEN olx' = [olx EXCEPT !.empty_pages = empty_pages_after(@, "none"), !.page = @ + 1,
                                      !.visited = Append(@, [page |-> olx.page, got |-> "none"])]
              ELSE IF ~cards
              THEN olx' = [olx EXCEPT !.empty_pages = empty_pages_after(@, "empty"), !.page = @ + 1,
                                      !.visited = Append(@, [page |-> olx.page, got |-> "empty"])]
              ELSE /\ olx.handled < MaxOlxCards
                   /\ olx' = [olx EXCEPT !.empty_pages = empty_pages_after(@, "cards"),
                                      !.pc = "cards", !.cards = 0,
                                      !.visited = Append(@, [page |-> olx.page, got |-> "cards"])]
    /\ UNCHANGED <<nierVars, geo, otodom, crawl>>

\* lines 352-390: one card of the page
OlxCard ==
    /\ olx.pc = "cards"
    /\ olx.handled < MaxOlxCards
    /\ \E link \in Links \cup {""}, title \in Titles, price \in OlxPrices,
          location \in RunLocations, date_raw \in OlxDates :
        \E coords_list \in OlxCoordsListsOf[location] :
          olx' = [olx EXCEPT
                    !.handled = @ + 1, !.cards = @ + 1,
                    !.all_listings =
                        IF link = "" \/ coords_list = <<>> THEN @
                        ELSE @ \o OlxRows(title, link, price, location,
                                          parse_olx_date(date_raw, olx.today), coords_list)]
    /\ UNCHANGED <<nierVars, geo, otodom, crawl>>

\* lines 392-393: page += 1 and the sleep, after the last card of the page
OlxEndPage ==
    /\ olx.pc = "cards"
    /\ olx.cards >= 1
    /\ olx' = [olx EXCEPT !.pc = "loop", !.page = @ + 1]
    /\ UNCHANGED <<nierVars, geo, otodom, crawl>>

\* lines 395-422: nothing scraped ends the run; else the merge is saved
OlxFinish ==
    /\ olx.pc = "loop"
    /\ olx.empty_pages >= max_empty_pages
    /\ IF olx.all_listings = <<>>
       THEN olx' = [olx EXCEPT !.pc = "done"]
       ELSE \E active \in [1..Len(olx.all_listings) -> BOOLEAN] :
               olx' = [olx EXCEPT !.pc = "done",
                                  !.file = OlxMerge(olx.df_existing, olx.all_listings, active)]
    /\ UNCHANGED <<nierVars, geo, otodom, crawl>>

NextOlx == OlxStart \/ OlxFetchPage \/ OlxCard \/ OlxEndPage \/ OlxFinish

SpecOlx == Init /\ [][NextOlx]_vars

(***************************************************************************)
(* otodom.py: main, scrape_offers and update_sheet (script.py has the same *)
(* update_sheet).  update_sheet is three steps, since the workbook is      *)
(* saved twice: the frame is built, the sheet is removed and the workbook  *)
(* saved, the frame is written as a new sheet.                             *)
(***************************************************************************)
MaxOtodomRuns == 2

\* offers handled by all the runs together
MaxOtodomOffers == 2

\* the MapLink text of an offer page
OtodomLocations ==
    { <<"Wola", ",", " ", "krakowski">>,
      <<"ul.", " ", "Dluga", ",", " ", "Zator">> }

\* lines 155: the parts of location.split(','), stripped
RECURSIVE SplitComma(_)
SplitComma(s) ==
    LET idx == {i \in 1..Len(s) : s[i] = ","}
    IN  IF idx = {} THEN <<strip(s)>>
        ELSE <<strip(SubSeq(s, 1, MinOf(idx) - 1))>>
                 \o SplitComma(SubSeq(s, MinOf(idx) + 1, Len(s)))

\* lines 154-159
extract_relevant_town(location) ==
    LET parts == SplitComma(location)
    IN  IF parts[1] # <<>> /\ lower(parts[1])[1] = "ul." /\ Len(parts) > 1
        THEN parts[2] ELSE parts[1]

\* the answers of the geocode calls of one resolution: two queries at most,
\* safe_geocode_max_retries calls each
OtodomAnswerSeqs == [1..(2 * safe_geocode_max_retries) -> SafeGeocodeAnswers]

\* lines 195-196: what the failed resolution returns, (-1.0, None, None)
NotFound == <<-100, -1, -1>>

\* lines 185-193: the queries from query q on
RECURSIVE QueryLoop(_, _, _)
QueryLoop(answers, q, n) ==
    IF q > n THEN [res |-> <<NotFound>>, raised |-> FALSE]
    ELSE LET from   == (q - 1) * safe_geocode_max_retries
             places == safe_geocode(SubSeq(answers, from + 1, from + safe_geocode_max_retries), 1)
         IN  IF places.raised THEN [res |-> <<>>, raised |-> TRUE]
             ELSE IF places.res # <<>>
             THEN [res |-> [i \in 1..Len(places.res) |->
                              <<geodesic(places.res[i]), places.res[i][1], places.res[i][2]>>],
                   raised |-> FALSE]
             ELSE QueryLoop(answers, q + 1, n)

\* lines 170-196
get_distance_to_krakow(town, county, answers) ==
    LET town_key == lower(town)
    IN  IF town_key \in DOMAIN TOWN_COORDS
        THEN [res |-> [i \in 1..Len(TOWN_COORDS[town_key]) |->
                         <<geodesic(TOWN_COORDS[town_key][i]),
                           TOWN_COORDS[town_key][i][1], TOWN_COORDS[town_key][i][2]>>],
              raised |-> FALSE]
        ELSE QueryLoop(answers, 1,
                       IF county # <<>> /\ lower(county) \in Range(ALLOWED_COUNTIES)
                       THEN 2 ELSE 1)

\* line 215: county = name.replace("powiat ", "")
OtodomCounty(n) == IF n = 1 THEN <<"krakowski">> ELSE <<"wielicki">>

OtodomResolutionsOf ==
    [location \in OtodomLocations |->
        [n \in 1..Len(SHEET_NAMES) |->
            {get_distance_to_krakow(extract_relevant_town(location), OtodomCounty(n), answers) :
                 answers \in OtodomAnswerSeqs}]]

\* lines 230-243: one row per tuple of coords_list
OtodomRows(title, link, price, location, day, coords_list) ==
    [i \in 1..Len(coords_list) |->
        [Title            |-> title,
         Location         |-> location,
         PriceAtFirstFind |-> price,
         DateFirstFound   |-> day,
         DateLastUpdated  |-> day,
         PriceLastUpdated |-> price,
         Distance         |-> coords_list[i][1],
         Active           |-> TRUE,
         Link             |-> link,
         Latitude         |-> coords_list[i][2],
         Longitude        |-> coords_list[i][3]]]

\* lines 264-271: for r in results, from results[i] on
RECURSIVE UpdateRows(_, _, _, _)
UpdateRows(df_old, rs, i, day) ==
    IF i > Len(rs) THEN df_old
    ELSE LET r     == rs[i]
             match == {j \in 1..Len(df_old) :
                          /\ df_old[j].Title = r.Title
                          /\ df_old[j].PriceLastUpdated = r.PriceLastUpdated}
         IN  IF match # {}
             THEN UpdateRows([df_old EXCEPT ![MinOf(match)] =
                                 [@ EXCEPT !.DateLastUpdated = day, !.Active = TRUE]],
                             rs, i + 1, day)
             ELSE UpdateRows(Append(df_old, r), rs, i + 1, day)

\* lines 255-275: the frame update_sheet builds from the sheet and the results
update_sheet(df_old, rs, day) ==
    LET merged         == UpdateRows(df_old, rs, 1, day)
        existing_links == {rs[i].Link : i \in 1..Len(rs)}
    IN  [j \in 1..Len(merged) |->
            [merged[j] EXCEPT !.Active = (merged[j].Link \in existing_links)]]

\* lines 352-359: main up to create_excel_with_sheets, which makes a
\* workbook of empty sheets when there is none; otodom.py is run once a day
OtodomStart ==
    /\ otodom.pc \in {"idle", "done", "crashed"}
    /\ otodom.runs < MaxOtodomRuns
    /\ LET sheets == IF otodom.exists THEN otodom.sheets
                     ELSE [n \in 1..Len(SHEET_NAMES) |-> [present |-> TRUE, rows |-> <<>>]]
       IN  otodom' = [otodom EXCEPT
                        !.pc = "scrape", !.exists = TRUE, !.runs = @ + 1,
                        !.today = IF otodom.runs = 0 THEN @ ELSE @ + 1,
                        !.sheets = sheets,
                        !.before = [n \in 1..Len(SHEET_NAMES) |-> sheets[n].rows],
                        !.sheet = 1, !.results = <<>>, !.links = {},
                        !.previous = <<>>, !.df_old = <<>>]
    /\ UNCHANGED <<nierVars, geo, olx>>

\* lines 224-248: one offer of the page; its links are distinct (line 219),
\* and an exception while it is handled skips it
OtodomOffer ==
    /\ otodom.pc = "scrape"
    /\ otodom.handled < MaxOtodomOffers
    /\ \E link \in Links \ otodom.links, title \in Titles, price \in Prices,
          location \in OtodomLocations, parsed \in BOOLEAN :
        \E out \in OtodomResolutionsOf[location][otodom.sheet] :
          otodom' = [otodom EXCEPT
                       !.handled = @ + 1, !.links = @ \cup {link},
                       !.results =
                           IF ~parsed \/ out.raised THEN @
                           ELSE @ \o OtodomRows(title, link, price, location,
                                                otodom.today, out.res)]
    /\ UNCHANGED <<nierVars, geo, olx>>

\* lines 255-275: update_sheet reads the sheet (an empty frame when the
\* workbook has no such sheet) and builds the frame to write
OtodomUpdateSheet ==
    /\ otodom.pc = "scrape"
    /\ LET sheet == otodom.sheets[otodom.sheet]
           read  == IF sheet.present THEN sheet.rows ELSE <<>>
       IN  otodom' = [otodom EXCEPT
                        !.pc = "merged", !.previous = read,
                        !.df_old = update_sheet(read, otodom.results, otodom.today)]
    /\ UNCHANGED <<nierVars, geo, olx>>

\* lines 277-281: the sheet is removed and the workbook saved
OtodomRemoveSheet ==
    /\ otodom.pc = "merged"
    /\ otodom' = [otodom EXCEPT !.pc = "removed",
                                !.sheets[otodom.sheet] = [present |-> FALSE, rows |-> <<>>]]
    /\ UNCHANGED <<nierVars, geo, olx>>

\* lines 283-295: the frame is written as the sheet; main goes on to the
\* next source (lines 360-361)
OtodomWriteSheet ==
    /\ otodom.pc = "removed"
    /\ otodom' = [otodom EXCEPT
                     !.sheets[otodom.sheet] = [present |-> TRUE, rows |-> otodom.df_old],
                     !.pc = IF otodom.sheet < Len(SHEET_NAMES) THEN "scrape" ELSE "done",
                     !.sheet = IF otodom.sheet < Len(SHEET_NAMES) THEN @ + 1 ELSE @,
                     !.results = IF otodom.sheet < Len(SHEET_NAMES) THEN <<>> ELSE @,
                     !.links = IF otodom.sheet < Len(SHEET_NAMES) THEN {} ELSE @]
    /\ UNCHANGED <<nierVars, geo, olx>>

\* the process is killed in the middle of a run
OtodomCrash ==
    /\ otodom.pc \in {"scrape", "merged", "removed"}
    /\ otodom' = [otodom EXCEPT !.pc = "crashed"]
    /\ UNCHANGED <<nierVars, geo, olx>>

NextOtodom ==
    \/ OtodomStart \/ OtodomOffer \/ OtodomUpdateSheet
    \/ OtodomRemoveSheet \/ OtodomWriteSheet \/ OtodomCrash

SpecOtodom == Init /\ [][NextOtodom]_vars

NextHttp == GetWithRetry

SpecHttp == Init /\ [][NextHttp]_vars

NextTowns == LoadTowns

SpecTowns == Init /\ [][NextTowns]_vars

NextGeo == ResolveNier \/ ResolveOlx \/ SafeGeocode

SpecGeo == Init /\ [][NextGeo]_vars

Next == StartRun \/ ScrapeListing \/ ScrapeListingRaises \/ FinishRun

Spec == Init /\ [][Next]_vars

(***************************************************************************)
(* Properties.                                                             *)
(***************************************************************************)
FirstFindOfRow(r) == [price |-> r.PriceAtFirstFind, date |-> r.DateFirstFound]

Permute(seq, p) == [i \in 1..Len(seq) |-> seq[p[i]]]

\* listings with the same link carry the same title, price and location text
SameLinkSameContent(listings) ==
    \A i, j \in 1..Len(listings) :
        listings[i].link = listings[j].link =>
            /\ listings[i].title = listings[j].title
            /\ listings[i].price = listings[j].price
            /\ listings[i].location = listings[j].location

FinishStep == pc = "scrape" /\ pc' = "done"

\* C1: a row built for a listing whose Link is already in the loaded sheet
\* carries the first-find price and date of the sheet's first row with that
\* Link, and every written row of such a Link carries first-find values of a
\* previous row of that Link.
C1_FirstFindKept ==
    /\ \A r \in Range(results) :
          r.Link \in LinkSet(df_existing) =>
              FirstFindOfRow(r) = FirstFindOfRow(RowsOfLink(df_existing, r.Link)[1])
    /\ pc = "done" =>
          \A r \in Range(file) :
              (r.Link \in LinkSet(df_existing) /\ r.Link \in current_links) =>
                  FirstFindOfRow(r) \in FirstFindsOf(df_existing, r.Link)

\* a Link seen again at another price keeps the first price in an updated row
C1_Witness ==
    /\ pc = "done"
    /\ \E r \in Range(file) :
          /\ r.Link \in LinkSet(df_existing)
          /\ r \in Range(results)
          /\ r.DateFirstFound < today
          /\ r.PriceLastUpdated # r.PriceAtFirstFind

\* C2: when a run saves, every row of the stored sheet whose Link the run did
\* not see is in the written sheet with Active false and every other column
\* as it was.
C2_MissingKeptInactive ==
    [][FinishStep =>
          \A i \in 1..Len(file) :
              file[i].Link \notin current_links =>
                  \E j \in 1..Len(file') : file'[j] = [file[i] EXCEPT !.Active = FALSE]]_vars

\* a stored row of a Link not seen is written inactive beside a row of this run
C2_Witness ==
    /\ pc = "done"
    /\ \E r \in Range(file) :
          /\ r.Link \notin current_links
          /\ r.Active = FALSE
    /\ \E r \in Range(file) : r \in Range(results)

\* C3: a Link of the stored sheet is in the sheet after every later run.
C3_LinkNeverDeleted ==
    [][LinkSet(file) \subseteq LinkSet(file')]_vars

\* C4: after a run every written row has Active true exactly if its Link was
\* seen in the run.
C4_ActiveRecomputed ==
    pc = "done" =>
        \A r \in Range(file) : r.Active = (r.Link \in current_links)

\* C5: after a run every written row of a (Link, Latitude, Longitude) that a
\* listing of the run resolved to carries the run date and a price scraped
\* for that Link in the run as its last-updated values.
C5_LastUpdatedFromRun ==
    pc = "done" =>
        \A i \in 1..Len(batch) : \A k \in 1..Len(batch[i].coords_list) :
            \A r \in Range(file) :
                Key(r) = <<batch[i].link, batch[i].coords_list[k][2], batch[i].coords_list[k][3]>> =>
                    /\ r.DateLastUpdated = today
                    /\ r.PriceLastUpdated \in
                           {batch[j].price : j \in {n \in 1..Len(batch) : batch[n].link = batch[i].link}}

\* C6: every row of a Link carries first-find values the Link got in the run
\* that first recorded it.
C6_FirstFindNeverChanges ==
    \A r \in Range(file) :
        created[r.Link] # {} => FirstFindOfRow(r) \in created[r.Link]

\* C7: the written sheet holds no (Link, Latitude, Longitude) twice, holds
\* every key of the run's rows and of the inactive previous rows, and holds
\* nothing else.
C7_UnionByKey ==
    pc = "done" =>
        /\ \A i, j \in 1..Len(file) : Key(file[i]) = Key(file[j]) => i = j
        /\ \A r \in Range(results) \cup Range(Inactive(df_existing)) :
              \E w \in Range(file) : Key(w) = Key(r)
        /\ Range(file) \subseteq Range(results) \cup Range(Inactive(df_existing))

\* a Link written at two coordinates, with a repeated key dropped
C7_Witness ==
    /\ pc = "done"
    /\ Len(file) < Len(Inactive(df_existing)) + Len(results)
    /\ \E i, j \in 1..Len(file) :
          file[i].Link = file[j].Link /\ Key(file[i]) # Key(file[j])

\* C8 as stated: whatever the listings, handling them in any other order
\* writes the same set of rows.
C8_OrderIndependent ==
    [][FinishStep =>
          \A p \in Permutations(1..Len(batch)) :
              Range(Reconcile(file, Permute(batch, p), today)) = Range(file')]_vars

\* C8 amended: when listings with the same Link carry the same title, price
\* and location text, handling them in any other order writes the same set
\* of rows.
C8_OrderIndependentSameContent ==
    [][(FinishStep /\ SameLinkSameContent(batch)) =>
          \A p \in Permutations(1..Len(batch)) :
              Range(Reconcile(file, Permute(batch, p), today)) = Range(file')]_vars

\* two different listings, one of a stored Link, reconciled into rows
C8_Witness ==
    /\ pc = "done"
    /\ Len(batch) >= 2
    /\ SameLinkSameContent(batch)
    /\ batch[1].link # batch[2].link
    /\ batch[1].link \in LinkSet(df_existing)
    /\ batch[1].coords_list # <<>>
    /\ batch[2].coords_list # <<>>

\* C9 as stated: whatever the stored sheet and the listings, reconciling the
\* written sheet with the same listings on the same day gives the written
\* sheet.
C9_Idempotent ==
    [][FinishStep => Reconcile(file', batch, today) = file']_vars

\* C9 amended: the same, when listings with the same Link carry the same
\* title, price and location text.
C9_IdempotentSameContent ==
    [][(FinishStep /\ SameLinkSameContent(batch)) =>
          Reconcile(file', batch, today) = file']_vars

\* a stored Link seen again at another price, beside a row gone inactive
C9_Witness ==
    /\ pc = "done"
    /\ SameLinkSameContent(batch)
    /\ \E r \in Range(file) :
          /\ r.Link \in LinkSet(df_existing)
          /\ r.Active
          /\ r.PriceLastUpdated # r.PriceAtFirstFind
    /\ \E r \in Range(file) : r.Active = FALSE

\* the town of the last resolver call is in town_list.txt and stored only
\* beyond MAX_DISTANCE_KM
AllTooFar ==
    /\ geo.fn # "none"
    /\ TownOf(geo.location) \in DOMAIN TOWN_COORDS
    /\ \A i \in 1..Len(TOWN_COORDS[TownOf(geo.location)]) :
          geodesic(TOWN_COORDS[TownOf(geo.location)][i]) > MAX_DISTANCE_KM * 100

\* the first place among the answers, as a one-tuple list when within range
FirstPlace(answers, n) ==
    LET at == {i \in 1..n : answers[i].kind = "place"}
    IN  IF at = {} THEN <<>>
        ELSE LET a == answers[MinOf(at)].at
             IN  IF geodesic(a) <= MAX_DISTANCE_KM * 100
                 THEN << <<geodesic(a), a[1], a[2]>> >> ELSE <<>>

\* C10 as stated: for a town of town_list.txt stored only beyond the maximum
\* distance both resolvers return the empty list, the county table is not
\* consulted and the geocoder is not called.
C10_GazetteerFinal ==
    AllTooFar => (geo.res = <<>> /\ geo.county = FALSE /\ geo.calls = 0)

\* C10 amended: for such a town the gazetteer step gives nothing and the
\* resolver goes on.  nieruchomosci_online.py consults the county table; an
\* allow-listed county in the town gives that county's coordinate, else the
\* geocoder is called and the first place it returns decides.  olx.py calls
\* the geocoder once and its answer decides.
C10_GazetteerFallsThrough ==
    /\ (AllTooFar /\ geo.fn = "nier") =>
          /\ geo.county = TRUE
          /\ IF \E c \in Range(ALLOWED_COUNTIES) : IsSubstring(c, TownOf(geo.location))
             THEN geo.calls = 0 /\ Len(geo.res) = 1
             ELSE geo.calls >= 1 /\ geo.res = FirstPlace(geo.answers, max_retries)
    /\ (AllTooFar /\ geo.fn = "olx") =>
          /\ geo.calls = 1
          /\ geo.res = FirstPlace(geo.answers, 1)

\* "tarnow" is stored too far away and the geocoder's place is returned
C10_Witness ==
    /\ AllTooFar
    /\ geo.fn = "nier"
    /\ geo.calls >= 1
    /\ geo.res # <<>>

(***************************************************************************)
(* Claims about the resolvers, checked under SpecGeo.                      *)
(***************************************************************************)
\* the town is not in town_list.txt or is stored only beyond the maximum distance
NoGazetteerHit(town) ==
    \/ town \notin DOMAIN TOWN_COORDS
    \/ \A i \in 1..Len(TOWN_COORDS[town]) :
          geodesic(TOWN_COORDS[town][i]) > MAX_DISTANCE_KM * 100

NoCountyIn(town) ==
    \A i \in 1..Len(ALLOWED_COUNTIES) : ~IsSubstring(ALLOWED_COUNTIES[i], town)

\* the attempts of geo.answers that returned a place
PlaceAttempts(n) == {i \in 1..n : geo.answers[i].kind = "place"}

\* C11: every (distance, latitude, longitude) tuple returned by
\* get_distance_from_krakow of nieruchomosci_online.py and of olx.py has a
\* distance of at most MAX_DISTANCE_KM, whichever step produced it.
C11_WithinMaxDistance ==
    geo.fn \in {"nier", "olx"} =>
        \A i \in 1..Len(geo.res) : geo.res[i][1] <= MAX_DISTANCE_KM * 100

\* "dabrowa" is stored once beyond and once within the distance: one tuple comes back
C11_Witness ==
    /\ geo.fn \in {"nier", "olx"}
    /\ TownOf(geo.location) = <<"dabrowa">>
    /\ geo.res = << <<geodesic(Skawina), Skawina[1], Skawina[2]>> >>

\* C12: get_distance_from_krakow of nieruchomosci_online.py never ends in an
\* exception of the geocoder: it returns a list, and when the geocoder step
\* is reached and each of its max_retries attempts raised or returned None
\* the list is empty.
C12_GeocoderNeverRaises ==
    geo.fn = "nier" =>
        /\ geo.raised = FALSE
        /\ ( /\ NoGazetteerHit(TownOf(geo.location))
             /\ NoCountyIn(TownOf(geo.location))
             /\ PlaceAttempts(max_retries) = {} )
           => (geo.res = <<>> /\ geo.calls = max_retries)

\* three attempts, some raising and some returning None, and the empty list
C12_Witness ==
    /\ geo.fn = "nier"
    /\ geo.calls = max_retries
    /\ PlaceAttempts(max_retries) = {}
    /\ \E i, j \in 1..max_retries :
          geo.answers[i].kind = "raise" /\ geo.answers[j].kind = "none"
    /\ geo.res = <<>>
    /\ geo.raised = FALSE

\* one tuple per stored coordinate of the town within the maximum distance, in file order
GazetteerTuples(town) ==
    LET near(c) == geodesic(c) <= MAX_DISTANCE_KM * 100
        sel == SelectSeq(TOWN_COORDS[town], near)
    IN  [i \in 1..Len(sel) |-> <<geodesic(sel[i]), sel[i][1], sel[i][2]>>]

\* a location text of the form 'T (...)' whose T is a key of town_list.txt
ParenthesizedGazetteerTown ==
    /\ geo.fn = "nier"
    /\ "(" \in Range(geo.location)
    /\ TownOf(geo.location) \in DOMAIN TOWN_COORDS

\* C14 as stated: for a location text 'T (...)' whose trimmed, lower-cased T
\* is a gazetteer key, get_distance_from_krakow of nieruchomosci_online.py
\* returns exactly one tuple per stored coordinate of T within
\* MAX_DISTANCE_KM, in gazetteer order, latitude and longitude unchanged.
C14_GazetteerTuplesOnly ==
    ParenthesizedGazetteerTown => geo.res = GazetteerTuples(TownOf(geo.location))

\* C14 amended: that holds when at least one stored coordinate of T lies
\* within MAX_DISTANCE_KM (and then neither the county table nor the
\* geocoder is used); 'Krakow (dzielnica)' gives [(0.0, 50.0647, 19.9450)].
\* When none does, the result is at most one tuple of a fallback step.
C14_GazetteerTuplesWhenInRange ==
    /\ (ParenthesizedGazetteerTown /\ ~NoGazetteerHit(TownOf(geo.location))) =>
          /\ geo.res = GazetteerTuples(TownOf(geo.location))
          /\ geo.county = FALSE
          /\ geo.calls = 0
    /\ (ParenthesizedGazetteerTown /\ TownOf(geo.location) = <<"krakow">>) =>
          geo.res = << <<0, KRAKOW_COORDS[1], KRAKOW_COORDS[2]>> >>
    /\ (ParenthesizedGazetteerTown /\ NoGazetteerHit(TownOf(geo.location))) =>
          (geo.county = TRUE /\ Len(geo.res) <= 1)

\* "wola" is stored twice within the distance: two tuples in file order
C14_Witness ==
    /\ ParenthesizedGazetteerTown
    /\ geo.res = << <<geodesic(WolaA), WolaA[1], WolaA[2]>>,
                    <<geodesic(WolaB), WolaB[1], WolaB[2]>> >>

\* C15: in get_distance_from_krakow of nieruchomosci_online.py an
\* out-of-range match at a fallback step rejects the whole resolution.  A
\* town holding an allow-listed county never reaches the geocoder, and gives
\* [] when that county's coordinate is beyond MAX_DISTANCE_KM; the first
\* geocoder attempt that returns a place is the last attempt, and gives []
\* when the place is beyond MAX_DISTANCE_KM.
C15_OutOfRangeRejects ==
    (geo.fn = "nier" /\ NoGazetteerHit(TownOf(geo.location))) =>
        LET town == TownOf(geo.location)
            hit  == {i \in 1..Len(ALLOWED_COUNTIES) : IsSubstring(ALLOWED_COUNTIES[i], town)}
        IN  IF hit # {}
            THEN /\ geo.calls = 0
                 /\ geodesic(COUNTY_COORDS[ALLOWED_COUNTIES[MinOf(hit)]])
                        > MAX_DISTANCE_KM * 100 => geo.res = <<>>
            ELSE PlaceAttempts(max_retries) # {} =>
                    LET k == MinOf(PlaceAttempts(max_retries))
                    IN  /\ geo.calls = k
                        /\ geodesic(geo.answers[k].at) > MAX_DISTANCE_KM * 100
                              => geo.res = <<>>

\* a place beyond the distance ends the resolution although a later attempt
\* would have returned a place within it
C15_Witness ==
    /\ geo.fn = "nier"
    /\ geo.calls = 2
    /\ geo.answers[1].kind # "place"
    /\ geo.answers[2] = [kind |-> "place", at |-> Katowice]
    /\ geo.answers[3] = [kind |-> "place", at |-> Skawina]
    /\ geo.res = <<>>

\* C16: get_distance_from_krakow of nieruchomosci_online.py tries gazetteer,
\* county table, geocoder in this order and stops at the first that decides:
\* the geocoder is called only if the gazetteer gave no in-range result and
\* no allow-listed county matched; the county table is consulted only if the
\* gazetteer gave no in-range result.
C16_StepsInOrder ==
    geo.fn = "nier" =>
        /\ geo.calls > 0 =>
              (NoGazetteerHit(TownOf(geo.location)) /\ NoCountyIn(TownOf(geo.location)))
        /\ geo.county = TRUE => NoGazetteerHit(TownOf(geo.location))

\* 'powiat Wielicki' is decided by the county table without a geocoder call
C16_Witness ==
    /\ geo.fn = "nier"
    /\ ~NoCountyIn(TownOf(geo.location))
    /\ geo.county = TRUE
    /\ geo.calls = 0
    /\ Len(geo.res) = 1

\* C17: one call of get_distance_from_krakow of nieruchomosci_online.py
\* returns after at most max_retries geocoder calls, none of them after a
\* call that returned a place; safe_geocode of otodom.py returns or raises
\* after at most its max_retries calls, none of them after a call that did
\* not raise.
C17_BoundedAttempts ==
    /\ geo.fn = "nier" =>
          /\ geo.calls <= max_retries
          /\ \A j \in 1..(geo.calls - 1) : geo.answers[j].kind # "place"
    /\ geo.fn = "safe_geocode" =>
          /\ geo.calls <= safe_geocode_max_retries
          /\ \A j \in 1..(geo.calls - 1) : geo.answers[j].kind = "raise"

\* safe_geocode stops at a None answer although the next call would return a place
C17_Witness ==
    /\ geo.fn = "safe_geocode"
    /\ geo.answers[1].kind = "none"
    /\ geo.answers[2].kind = "place"
    /\ geo.calls = 1
    /\ geo.res = <<>>

(***************************************************************************)
(* Claims about listings that do not resolve, checked under Spec.          *)
(***************************************************************************)
\* the listings of the run whose location no step resolved: the town is not
\* in town_list.txt, holds no allow-listed county, and the geocoder gave nothing
Unresolved ==
    {i \in 1..Len(batch) :
        /\ batch[i].coords_list = <<>>
        /\ NoGazetteerHit(TownOf(batch[i].location))
        /\ NoCountyIn(TownOf(batch[i].location))}

\* C13: after a run of nieruchomosci_online.py every scraped listing whose
\* town is in neither table and for which the geocoder gave nothing is
\* retained: the written set has a record of its Link (the claim adds: with
\* null Latitude and Longitude).
C13_UnresolvedRetained ==
    pc = "done" =>
        \A i \in Unresolved : \E r \in Range(file) : r.Link = batch[i].link

(***************************************************************************)
(* Claims about the OneDrive copy, checked under SpecCloud.                *)
(***************************************************************************)
\* the rows without their Active flag, which MarkMissing rewrites
Deactivated(rows) == [i \in 1..Len(rows) |-> [rows[i] EXCEPT !.Active = FALSE]]

\* C18: in main() of nieruchomosci_online.py a failure to read the stored
\* record set, a failed download of the OneDrive copy included, ends the run
\* before anything is written or uploaded: a stored OneDrive copy is never
\* replaced by a merge that was computed from other rows than its own.
C18_PreviousSetNeverLost ==
    [][(cloud' # cloud /\ cloud # <<>>) => Deactivated(df_existing) = Deactivated(cloud)]_vars

\* C19 as stated: a rejected token refresh or a rejected upload is swallowed
\* and the run still writes its merged set to the local spreadsheet.
C19_CloudFailureSwallowed ==
    (\E k \in {"auth", "upload_auth", "upload"} : onedrive[k] = "rejected")
        => (saved /\ pc # "aborted")

\* C19 amended: a rejected upload is swallowed and a token refresh rejected
\* before the upload ends the run with an exception, both after the merged
\* set was written to the local spreadsheet; a token refresh rejected at the
\* start ends the run before anything is scraped or written.
C19_CloudFailureAfterSave ==
    /\ onedrive.upload = "rejected" =>
          (pc = "end" /\ saved /\ file = Combine(df_existing, results))
    /\ onedrive.upload_auth = "rejected" =>
          (pc = "aborted" /\ saved /\ file = Combine(df_existing, results))
    /\ onedrive.auth = "rejected" =>
          (pc = "aborted" /\ ~saved /\ batch = <<>> /\ onedrive.download = "none")

\* a run that wrote rows locally and whose upload was rejected
C19_Witness ==
    /\ onedrive.upload = "rejected"
    /\ saved
    /\ file # <<>>
    /\ file # cloud

(***************************************************************************)
(* Claims about listings with missing elements, checked under SpecParse.   *)
(***************************************************************************)
\* C20: in main() of nieruchomosci_online.py a listing whose title, price
\* or location element is missing gets the sentinel 'No title', 'No price'
\* or 'No location' for it, and the run still writes a record of it.
C20_SentinelListingWritten ==
    /\ \A i \in 1..Len(batch) :
          /\ batch[i].title = "No title" <=> batch[i].raw.h2 = <<>>
          /\ batch[i].price = "No price" <=> batch[i].raw.price = <<>>
          /\ batch[i].location = <<"No location">> <=> batch[i].raw.province = <<>>
    /\ pc = "done" =>
          \A i \in 1..Len(batch) :
              (<<>> \in {batch[i].raw.h2, batch[i].raw.price, batch[i].raw.province}) =>
                  \E r \in Range(file) :
                      /\ r.Link = batch[i].link
                      /\ r.Title = batch[i].title
                      /\ r.PriceLastUpdated = batch[i].price
                      /\ r.Location = batch[i].location

(***************************************************************************)
(* Claims about load_towns, checked under SpecTowns.                       *)
(***************************************************************************)
\* a line with three fields whose second and third are numbers
WellFormed(parts) == Len(parts) = 3 /\ float(parts[2]) # <<>> /\ float(parts[3]) # <<>>

\* the coordinates of the well-formed lines that name the town, in file order
WellFormedCoordsOf(lines, key) ==
    LET named(parts) == WellFormed(parts) /\ LowerTok(parts[1]) = key
        sel == SelectSeq(lines, named)
    IN  [i \in 1..Len(sel) |-> <<float(sel[i][2])[1], float(sel[i][3])[1]>>]

\* C21: load_towns skips every malformed line, one with a wrong number of
\* fields or with a latitude or longitude that is no number, without
\* raising, and loads every well-formed line.
C21_MalformedSkipped ==
    geo.fn = "load_towns" =>
        /\ geo.raised = FALSE
        /\ \A i \in 1..Len(geo.lines) :
              WellFormed(geo.lines[i]) =>
                  /\ LowerTok(geo.lines[i][1]) \in DOMAIN geo.towns
                  /\ geo.towns[LowerTok(geo.lines[i][1])]
                        = WellFormedCoordsOf(geo.lines, LowerTok(geo.lines[i][1]))

(***************************************************************************)
(* Claims about get_with_retry, checked under SpecHttp.                    *)
(***************************************************************************)
\* the attempts answered with status 200
OkAttempts == {i \in 1..retries : geo.answers[i] = "ok"}

\* C30: get_with_retry of olx.py makes at most `retries` GET attempts,
\* returns the first response with status 200 without a further attempt,
\* returns None exactly when every attempt raised or had another status,
\* and never raises.
C30_FirstOkOrNone ==
    geo.fn = "get_with_retry" =>
        /\ geo.raised = FALSE
        /\ geo.attempts <= retries
        /\ geo.response = <<>> <=> OkAttempts = {}
        /\ OkAttempts # {} =>
              /\ geo.response = <<MinOf(OkAttempts)>>
              /\ geo.attempts = MinOf(OkAttempts)
        /\ OkAttempts = {} => geo.attempts = retries

\* an exception, another status, then 200 at the third attempt, and a 200 left unasked
C30_Witness ==
    /\ geo.fn = "get_with_retry"
    /\ geo.answers[1] = "raise"
    /\ geo.answers[2] = "rejected"
    /\ geo.answers[3] = "ok"
    /\ geo.answers[5] = "ok"
    /\ geo.response = <<3>>
    /\ geo.attempts = 3

(***************************************************************************)
(* olx.py: reconciliation and pagination                                   *)
(***************************************************************************)

\* C22: after a run of olx.py every previous record whose Link the fresh
\* scrape did not yield, a scrape that yielded nothing included, is in the
\* sheet with Active false and its other fields unchanged
C22_MissingKeptInactive ==
    [][(olx.pc = "loop" /\ olx'.pc = "done") =>
          \A i \in 1..Len(olx.df_existing) :
              olx.df_existing[i].Link \notin LinkSet(olx.all_listings) =>
                  \E j \in 1..Len(olx'.file) :
                      olx'.file[j] = [olx.df_existing[i] EXCEPT !.Active = FALSE]]_vars

\* the while loop of lines 333-393 is over
OlxLoopOver ==
    \/ olx.pc = "done"
    \/ olx.pc = "loop" /\ ~(olx.empty_pages < max_empty_pages)

\* the page failed (get_with_retry gave None) or had no card
OlxBadPage(i) == olx.visited[i].got \in {"none", "empty"}

\* C29: the pages of a run are 1, 2, 3, ... in order, and the loop is over
\* exactly when the last three pages each failed or had no card
C29_ThreeConsecutiveEmptyPagesEnd ==
    olx.pc \in {"loop", "cards", "done"} =>
        /\ \A i \in 1..Len(olx.visited) : olx.visited[i].page = i
        /\ OlxLoopOver <=>
               /\ Len(olx.visited) >= max_empty_pages
               /\ \A i \in (Len(olx.visited) - max_empty_pages + 1)..Len(olx.visited) :
                      OlxBadPage(i)

C29_Witness ==
    /\ olx.pc = "done"
    /\ Len(olx.visited) = 4
    /\ olx.visited[1].got = "cards"
    /\ {olx.visited[i].got : i \in 2..4} = {"none", "empty"}

(***************************************************************************)
(* otodom.py and script.py: update_sheet                                   *)
(***************************************************************************)

\* the step of update_sheet that writes the sheet
OtodomWritten ==
    /\ otodom.pc = "removed"
    /\ otodom'.sheets[otodom.sheet].present

\* C23: every row update_sheet writes for a Link the sheet already held
\* carries the first-find price and date of a previous row of that Link
C23_FirstFindKeptByLink ==
    [][OtodomWritten =>
          LET written == otodom'.sheets[otodom.sheet].rows
          IN  \A j \in 1..Len(written) :
                  written[j].Link \in LinkSet(otodom.previous) =>
                      \E i \in 1..Len(otodom.previous) :
                          /\ otodom.previous[i].Link = written[j].Link
                          /\ otodom.previous[i].PriceAtFirstFind = written[j].PriceAtFirstFind
                          /\ otodom.previous[i].DateFirstFound = written[j].DateFirstFound]_vars

\* C24: the k > 1 records of a listing that resolved to k coordinates are
\* all in the sheet update_sheet writes
C24_FanOutAllWritten ==
    [][OtodomWritten =>
          LET written == otodom'.sheets[otodom.sheet].rows
          IN  \A i \in 1..Len(otodom.results) :
                  Len(RowsOfLink(otodom.results, otodom.results[i].Link)) > 1 =>
                      \E j \in 1..Len(written) :
                          Key(written[j]) = Key(otodom.results[i])]_vars

\* C25: at every point of a run of otodom.py, a run that was killed
\* included, each sheet is there and holds what it held when the run began,
\* unless every source has been scraped
C25_SheetsChangeOnceAfterScraping ==
    otodom.pc \in {"scrape", "merged", "removed", "crashed"} =>
        \A n \in 1..Len(SHEET_NAMES) :
            /\ otodom.sheets[n].present
            /\ otodom.sheets[n].rows # otodom.before[n] =>
                   /\ otodom.sheet = Len(SHEET_NAMES)
                   /\ otodom.pc # "scrape"

(***************************************************************************)
(* nieruchomosci_online.py: first-find values of the rows of one Link      *)
(***************************************************************************)

\* the rows of every Link agree on 'Price at first find' and 'Date first found'
OneFirstFindPerLink(rows) ==
    \A link \in Links : Cardinality(FirstFindsOf(rows, link)) <= 1

\* listings with the same link carry the same price
SameLinkSamePrice(listings) ==
    \A i, j \in 1..Len(listings) :
        listings[i].link = listings[j].link => listings[i].price = listings[j].price

\* C27 as stated: in every sheet written, by whatever runs from an empty
\* sheet, the rows that share a Link share the first-find price and date
C27_OneFirstFindPerLink == OneFirstFindPerLink(file)

\* C27 amended: a run whose listings of one Link carry one price keeps the
\* rows of every Link agreeing on the first-find price and date
C27_OneFirstFindPerLinkSamePrice ==
    [][(FinishStep /\ OneFirstFindPerLink(file) /\ SameLinkSamePrice(batch)) =>
          OneFirstFindPerLink(file')]_vars

\* a Link met twice in one scrape and resolved to different places, stored
\* beside rows of that Link from an earlier day
C27_Witness ==
    /\ pc = "done"
    /\ SameLinkSamePrice(batch)
    /\ OneFirstFindPerLink(df_existing)
    /\ \E i, j \in 1..Len(batch) :
          /\ i # j
          /\ batch[i].link = batch[j].link
          /\ batch[i].location # batch[j].location
          /\ batch[i].coords_list # <<>>
          /\ batch[j].coords_list # <<>>
          /\ Len(RowsOfLink(file, batch[i].link)) >= 3
          /\ \E r \in Range(file) :
                r.Link = batch[i].link /\ r.DateFirstFound # r.DateLastUpdated

(***************************************************************************)
(* nieruchomosci_online.py: the page loop                                  *)
(***************************************************************************)

\* C26: between any two consecutive geocoder calls of a run, retries for one
\* listing or calls for successive listings, there is a sleep: never two
\* calls since the last time.sleep
C26_SleepBetweenGeocoderCalls == crawl.calls_since_sleep <= 1

\* C28: after a non-200 answer for a page no other page is fetched and the
\* run is not aborted: its next and only step marks every stored Link the
\* pages before did not show as inactive and saves the sheet
C28_Non200EndsScrapeNotRun ==
    [][(crawl.broke /\ pc # "done") =>
          /\ pc = "reconcile"
          /\ pc' = "done"
          /\ saved'
          /\ crawl'.page = crawl.page
          /\ \A i \in 1..Len(file) :
                file[i].Link \notin current_links =>
                    \E j \in 1..Len(file') : file'[j] = [file[i] EXCEPT !.Active = FALSE]]_vars

\* the second page or a later one failed: a stored Link the pages before did
\* not show is saved inactive, beside a Link they showed
C28_Witness ==
    /\ pc = "done"
    /\ saved
    /\ crawl.broke
    /\ crawl.page >= 2
    /\ \E r \in Range(file) : ~r.Active /\ r.Link \notin current_links
                                /\ r.Link \in LinkSet(df_existing)
    /\ \E r \in Range(file) : r.Active /\ r.Link \in current_links

====
